---- MODULE Spec2Model ----
(***************************************************************************)
(* Model of epoa_app/main.py: the spreadsheet scan (RoleCounter,           *)
(* spreadsheet_row_gen, role_gen), the Role path derivation, Role.prep,    *)
(* EPOAApp.apply, EPOAApp.zip and the keyword scan (Role.text_search).     *)
(*                                                                         *)
(* Strings are sequences of one-character strings.  A datetime is a        *)
(* number of half days: 2*day + (0 for midnight, 1 for noon), so that      *)
(* strftime("%Y%m%d") is the integer division by TicksPerDay.              *)
(***************************************************************************)
EXTENDS Integers, Sequences, FiniteSets, TLC

VARIABLES
    sheet,       \* the spreadsheet tab: a sequence of rows
    now,         \* the clock
    mode,        \* "idle", "scan", "apply" or "zip"
    filt,        \* role_gen's applied argument
    df,          \* the rows read_excel returned to the running scan
    idx,         \* next row index of the generator
    counts,      \* RoleCounter.counts
    yielded,     \* the Roles the generator has yielded in this scan
    seen,        \* history: the path first computed for a row
    fs,          \* evidence directory: folder path -> files in it
    zips,        \* zip files in the evidence directory: day -> entries
    pc,          \* position of the running apply or zip
    exitc,       \* exit status of the process; Running while it runs
    since,       \* args.since_date
    resume,      \* content of the resume file of this run
    role_count,  \* zip's role_count
    log,         \* history: the steps of the current run
    prepFs,      \* history: fs when prep of the current role began
    pages,       \* extracted text of the pages of a posting PDF
    words,       \* config.compensation_words, in iteration order
    pidx,        \* next page of check_posting_pdf's loop
    hits,        \* the hits text_search has printed
    runs         \* history: the runs of the tool started so far

genvars == <<sheet, now, mode, filt, df, idx, counts, yielded, seen>>
appvars == <<fs, zips, pc, exitc, since, resume, role_count, log, prepFs>>
scanvars == <<pages, words, pidx, hits>>
vars == <<genvars, appvars, scanvars, runs>>

(* ---------------------------- bounds ----------------------------------- *)
MaxRows == 3
MaxNow == 2
MaxAppRows == 2
MaxEditRows == 2
MaxLiveRows == 2
MaxText == 2
MaxPages == 2
MaxRuns == 2

(* ------------------------- strings and cells --------------------------- *)
TicksPerDay == 2

ToLower(c) ==
    CASE c = "A" -> "a"
      [] c = "B" -> "b"
      [] c = "E" -> "e"
      [] OTHER -> c

IsAlnum(c) == c \in {"a", "b", "e", "A", "B", "E"}

RECURSIVE Lower(_)
Lower(s) == IF s = <<>> THEN <<>> ELSE <<ToLower(Head(s))>> \o Lower(Tail(s))

\* slugify(): lower-case, every run of non-alphanumerics becomes one "-",
\* leading and trailing "-" are stripped.
SlugChar(c) == IF IsAlnum(c) THEN ToLower(c) ELSE "-"

RECURSIVE Hyphenate(_, _)
Hyphenate(s, acc) ==
    IF s = <<>> THEN acc
    ELSE IF SlugChar(Head(s)) = "-" /\ (acc = <<>> \/ acc[Len(acc)] = "-")
         THEN Hyphenate(Tail(s), acc)
         ELSE Hyphenate(Tail(s), Append(acc, SlugChar(Head(s))))

slugify(s) ==
    IF Hyphenate(s, <<>>) # <<>>
       /\ Hyphenate(s, <<>>)[Len(Hyphenate(s, <<>>))] = "-"
    THEN SubSeq(Hyphenate(s, <<>>), 1, Len(Hyphenate(s, <<>>)) - 1)
    ELSE Hyphenate(s, <<>>)

\* A spreadsheet cell as read_excel delivers it: an empty cell is NaN, a
\* numeric 0 is the falsy value, a text cell is a string.
NaN == [k |-> "nan", s |-> <<>>]
Zero == [k |-> "zero", s |-> <<>>]
Str(s) == [k |-> "str", s |-> s]
NaT == -1

\* Python truth value of a cell: bool(nan) is True, bool(0) is False.
Truthy(c) ==
    CASE c.k = "nan" -> TRUE
      [] c.k = "zero" -> FALSE
      [] OTHER -> c.s # <<>>

IsStr(c) == c.k = "str"
notna(d) == d # NaT

strftime(dt) == dt \div TicksPerDay

(* ------------------------------ inputs --------------------------------- *)
Ab == Str(<<"A", "b">>)
ab == Str(<<"a", "b">>)
TitleE == Str(<<"E">>)
UrlU == Str(<<"u">>)

\* Date Applied cells hold dates (midnight).
DateCells == {NaT} \cup {TicksPerDay * d : d \in 0 .. (MaxNow \div TicksPerDay)}

\* Rows: complete rows, and rows with exactly one of the three required
\* cells missing (an empty cell, or the falsy 0).
CompleteRows ==
    [company : {Ab, ab}, title : {TitleE}, url : {UrlU}, date : DateCells]
IncompleteRows ==
    [company : {NaN}, title : {TitleE}, url : {UrlU}, date : {NaT}]
    \cup [company : {Ab}, title : {NaN}, url : {UrlU}, date : {NaT}]
    \cup [company : {Ab}, title : {TitleE}, url : {Zero}, date : {0}]
RowCells == CompleteRows \cup IncompleteRows

WithId(r, i) == [id |-> i, company |-> r.company, title |-> r.title,
                 url |-> r.url, date |-> r.date]

(* ---------------------------- RoleCounter ------------------------------ *)
\* counts[date_str][company], flattened to the pair <<date_str, company>>;
\* the defaultdict reads 0 for a missing key.
CountOf(c, key) == IF key \in DOMAIN c THEN c[key] ELSE 0

CounterKey(company, date) ==
    <<strftime(IF notna(date) THEN date ELSE now), company>>

\* Mutant: the count is set to 1 instead of incremented.
CounterBump_assign(c, key) ==
    [x \in DOMAIN c \cup {key} |-> IF x = key THEN 1 ELSE c[x]]

CounterBump(c, key) ==
    [x \in DOMAIN c \cup {key} |-> IF x = key THEN CountOf(c, key) + 1 ELSE c[x]]

(* --------------------------- Role and paths ---------------------------- *)
\* Role.date_str, role_dir_name, role_path, posting_pdf_path.  date_str is
\* evaluated with the clock of the step that first prints the role.
RoleDateStr(date_applied) ==
    strftime(IF notna(date_applied) THEN date_applied ELSE now)

role_dir_name(ds, num, title) == <<ds, num, slugify(title.s)>>

role_path(company, ds, num, title) ==
    <<slugify(company.s), role_dir_name(ds, num, title)>>

\* print_info concatenates role_title, company and role_url to str: a cell
\* that is not a string raises TypeError.
Printable(role) == IsStr(role.company) /\ IsStr(role.title) /\ IsStr(role.url)

NoPath == <<>>

from_spreadsheet_row(row, num) ==
    LET r0 == [id |-> row.id, company |-> row.company, title |-> row.title,
               url |-> row.url, date_applied |-> row.date, role_num |-> num]
    IN [id |-> r0.id, company |-> r0.company, title |-> r0.title,
        url |-> r0.url, date_applied |-> r0.date_applied, role_num |-> num,
        path |-> IF Printable(r0)
                 THEN role_path(r0.company, RoleDateStr(r0.date_applied), num,
                                r0.title)
                 ELSE NoPath]

\* The first path computed for each row whose cells did not change since.
Remember(sn, roles) ==
    LET new == {r \in {roles[i].r : i \in 1 .. Len(roles)} :
                  r.id \notin DOMAIN sn /\ r.path # NoPath}
    IN [i \in DOMAIN sn \cup {r.id : r \in new} |->
          IF i \in DOMAIN sn THEN sn[i]
          ELSE [path |-> (CHOOSE r \in new : r.id = i).path,
                day |-> strftime(now)]]

Forget(sn, i) == [x \in DOMAIN sn \ {i} |-> sn[x]]

(* ------------------------- spreadsheet_row_gen ------------------------- *)
\* role_gen's row filter: r.notna()["Date Applied"] == applied.
RowFilterPass(applied, row) == notna(row.date) = applied

RowSkipped(row) ==
    ~Truthy(row.company) \/ ~Truthy(row.url) \/ ~Truthy(row.title)

RowYields(f, row) == RowFilterPass(f, row) /\ ~RowSkipped(row)

\* Index of the first row at or after i that the generator yields, or
\* Len(d) + 1 when the loop runs off the end.
RECURSIVE NextYield(_, _, _)
NextYield(d, f, i) ==
    IF i > Len(d) THEN i
    ELSE IF RowYields(f, d[i]) THEN i ELSE NextYield(d, f, i + 1)

\* One next() of the generator on row `row`: RoleCounter.next and
\* Role.from_spreadsheet_row.  A NaN company is a dict key that need not
\* compare equal to an earlier NaN, so its count may also restart at 1
\* (fresh).
GenYield(c, row, fresh) ==
    LET key == CounterKey(row.company, row.date)
        c0 == IF fresh THEN [x \in DOMAIN c \ {key} |-> c[x]] ELSE c
        c1 == CounterBump(c0, key)
    IN [counts |-> c1,
        item |-> [r |-> from_spreadsheet_row(row, c1[key]), cdate |-> key[1]]]

FreshOk(row, fresh) == fresh => row.company = NaN

Idle == mode = "idle"

\* Start of a scan: RoleCounter() and read_excel.
GenStart ==
    /\ mode = "idle"
    /\ \E applied \in BOOLEAN : filt' = applied
    /\ mode' = "scan"
    /\ df' = sheet
    /\ idx' = 1
    /\ counts' = <<>>
    /\ yielded' = <<>>
    /\ seen' = Remember(seen, yielded)
    /\ UNCHANGED <<sheet, now, appvars>>
    /\ UNCHANGED <<scanvars, runs>>

\* One next() of the generator: skip to the next yielded row and yield its
\* Role, or stop at the end of the rows.
GenNext ==
    /\ mode = "scan"
    /\ LET j == NextYield(df, filt, idx)
       IN IF j > Len(df)
          THEN /\ mode' = "idle"
               /\ idx' = j
               /\ df' = <<>>
               /\ UNCHANGED <<counts, yielded>>
          ELSE \E fresh \in BOOLEAN :
                 /\ FreshOk(df[j], fresh)
                 /\ LET y == GenYield(counts, df[j], fresh)
                    IN /\ counts' = y.counts
                       /\ yielded' = Append(yielded, y.item)
                 /\ idx' = j + 1
                 /\ UNCHANGED <<mode, df>>
    /\ UNCHANGED <<sheet, now, filt, seen, appvars>>
    /\ UNCHANGED <<scanvars, runs>>

(* ------------------------ environment: operator ------------------------ *)
\* Time passes while no run is active or while a run waits for the operator.
Tick ==
    /\ now < MaxNow
    /\ pc \in {"idle", "wait"}
    /\ now' = now + 1
    /\ UNCHANGED <<sheet, mode, filt, df, idx, counts, yielded, seen, appvars>>
    /\ UNCHANGED <<scanvars, runs>>

RowIds == 1 .. (MaxEditRows + 1)
IdsOf(sh) == {sh[i].id : i \in 1 .. Len(sh)}

AddRow ==
    /\ mode = "idle"
    /\ Len(sheet) < MaxEditRows
    /\ \E r \in CompleteRows, p \in 0 .. Len(sheet) :
         LET i == CHOOSE x \in RowIds : x \notin IdsOf(sheet)
         IN sheet' = SubSeq(sheet, 1, p) \o <<WithId(r, i)>>
                     \o SubSeq(sheet, p + 1, Len(sheet))
    /\ seen' = Remember(seen, yielded)
    /\ yielded' = <<>>
    /\ UNCHANGED <<now, mode, filt, df, idx, counts, appvars>>
    /\ UNCHANGED <<scanvars, runs>>

RemoveRow ==
    /\ mode = "idle"
    /\ \E p \in 1 .. Len(sheet) :
         /\ sheet' = SubSeq(sheet, 1, p - 1) \o SubSeq(sheet, p + 1, Len(sheet))
         /\ seen' = Forget(Remember(seen, yielded), sheet[p].id)
    /\ yielded' = <<>>
    /\ UNCHANGED <<now, mode, filt, df, idx, counts, appvars>>
    /\ UNCHANGED <<scanvars, runs>>

\* The operator records today's date as Date Applied of a row.
FillDate ==
    /\ Idle
    /\ \E p \in 1 .. Len(sheet) :
         /\ sheet[p].date = NaT
         /\ sheet' = [sheet EXCEPT ![p].date = TicksPerDay * strftime(now)]
         /\ seen' = Forget(Remember(seen, yielded), sheet[p].id)
    /\ UNCHANGED <<now, mode, filt, df, idx, counts, yielded, appvars>>
    /\ UNCHANGED <<scanvars, runs>>

(* ------------------------------ file system ---------------------------- *)
Running == -1
NoFile == 0
PdfContent == 1
ResumeContents == {1, 2}

\* Path.mkdir(parents=True, exist_ok=True)
FsMkdir(f, p) ==
    IF p \in DOMAIN f THEN f
    ELSE [x \in DOMAIN f \cup {p} |->
            IF x = p THEN [resume |-> NoFile, pdf |-> NoFile] ELSE f[x]]

Entry(p, file, content) == [path |-> p, file |-> file, content |-> content]
SpreadsheetEntry == Entry(NoPath, "spreadsheet", 0)

\* role_path.glob("**/*"): the files of the folder, nothing when the folder
\* does not exist.
FolderEntries(f, p) ==
    IF p \notin DOMAIN f THEN {}
    ELSE {Entry(p, "resume", f[p].resume) : x \in {1} \cap
                                            (IF f[p].resume = NoFile THEN {} ELSE {1})}
         \cup {Entry(p, "pdf", f[p].pdf) : x \in {1} \cap
                                            (IF f[p].pdf = NoFile THEN {} ELSE {1})}

ZipPut(z, day, entries) ==
    [d \in DOMAIN z \cup {day} |->
        IF d \in DOMAIN z THEN (IF d = day THEN z[d] \cup entries ELSE z[d])
        ELSE entries]

cur == yielded[Len(yielded)].r
Ev(kind, r) == <<kind, r.id>>

(* -------------------------------- apply -------------------------------- *)
NoSince == [arg |-> "none", date |-> NaT]

\* __call__ for "apply": print_config, then the first next() of role_gen()
\* reads the spreadsheet.
StartApply ==
    /\ Idle
    /\ runs < MaxRuns
    /\ runs' = runs + 1
    /\ mode' = "apply"
    /\ pc' = "next"
    /\ exitc' = Running
    /\ since' = NoSince
    /\ \E c \in ResumeContents :
         \* config.resume_path holds version 1 of the resume until a copy
         \* of it exists; from then on the operator may have edited it.
         /\ c = 1 \/ \E q \in DOMAIN fs : fs[q].resume # NoFile
         /\ resume' = c
    /\ filt' = FALSE
    /\ df' = sheet
    /\ idx' = 1
    /\ counts' = <<>>
    /\ yielded' = <<>>
    /\ role_count' = 0
    /\ log' = <<<<"read", 0>>>>
    /\ prepFs' = fs
    /\ UNCHANGED <<sheet, now, seen, fs, zips>>
    /\ UNCHANGED scanvars

\* The for loop of apply takes the next role and prints it; print_info
\* raises TypeError on a role with a cell that is not a string.
ApplyNext ==
    /\ mode = "apply" /\ pc = "next"
    /\ LET j == NextYield(df, filt, idx)
       IN IF j > Len(df)
          THEN /\ pc' = "done"
               /\ exitc' = 0
               /\ idx' = j
               /\ UNCHANGED <<counts, yielded, prepFs>>
          ELSE \E fresh \in BOOLEAN :
                 /\ FreshOk(df[j], fresh)
                 /\ LET y == GenYield(counts, df[j], fresh)
                    IN /\ counts' = y.counts
                       /\ yielded' = Append(yielded, y.item)
                       /\ IF Printable(y.item.r)
                          THEN pc' = "mkdir" /\ exitc' = exitc
                          ELSE pc' = "done" /\ exitc' = 1
                 /\ idx' = j + 1
                 /\ prepFs' = fs
    /\ UNCHANGED <<sheet, now, mode, filt, df, seen, fs, zips, since, resume,
                   role_count, log>>
    /\ UNCHANGED <<scanvars, runs>>

\* Role.prep, line 251
prep_mkdir ==
    /\ mode = "apply" /\ pc = "mkdir"
    /\ fs' = FsMkdir(fs, cur.path)
    /\ log' = Append(log, Ev("mkdir", cur))
    /\ pc' = "copy"
    /\ UNCHANGED <<genvars, zips, exitc, since, resume, role_count, prepFs>>
    /\ UNCHANGED <<scanvars, runs>>

\* Mutant: the resume is copied without the exists() test.
prep_copy_always ==
    /\ mode = "apply" /\ pc = "copy"
    /\ fs' = [fs EXCEPT ![cur.path].resume = resume]
    /\ log' = Append(log, Ev("copy", cur))
    /\ pc' = "fetch"
    /\ UNCHANGED <<genvars, zips, exitc, since, resume, role_count, prepFs>>
    /\ UNCHANGED <<scanvars, runs>>

\* Role.prep, lines 252-254
prep_copy ==
    /\ mode = "apply" /\ pc = "copy"
    /\ IF fs[cur.path].resume = NoFile
       THEN /\ fs' = [fs EXCEPT ![cur.path].resume = resume]
            /\ log' = Append(log, Ev("copy", cur))
       ELSE UNCHANGED <<fs, log>>
    /\ pc' = "fetch"
    /\ UNCHANGED <<genvars, zips, exitc, since, resume, role_count, prepFs>>
    /\ UNCHANGED <<scanvars, runs>>

\* Mutant: subprocess.run without check=True, a failed fetch goes unnoticed.
prep_fetch_unchecked ==
    /\ mode = "apply" /\ pc = "fetch"
    /\ IF fs[cur.path].pdf = NoFile
       THEN \E ok \in BOOLEAN :
              IF ok
              THEN /\ fs' = [fs EXCEPT ![cur.path].pdf = PdfContent]
                   /\ log' = Append(log, Ev("fetch", cur))
              ELSE /\ log' = Append(log, Ev("fetchfail", cur))
                   /\ fs' = fs
       ELSE UNCHANGED <<fs, log>>
    /\ pc' = "scan"
    /\ UNCHANGED <<genvars, zips, exitc, since, resume, role_count, prepFs>>
    /\ UNCHANGED <<scanvars, runs>>

\* Role.prep, lines 255-266, and url_to_pdf: subprocess.run(check=True)
\* raises when the browser exits non-zero, and nothing catches it.
prep_fetch ==
    /\ mode = "apply" /\ pc = "fetch"
    /\ IF fs[cur.path].pdf = NoFile
       THEN \E ok \in BOOLEAN :
              IF ok
              THEN /\ fs' = [fs EXCEPT ![cur.path].pdf = PdfContent]
                   /\ log' = Append(log, Ev("fetch", cur))
                   /\ pc' = "scan"
                   /\ exitc' = exitc
              ELSE /\ log' = Append(log, Ev("fetchfail", cur))
                   /\ pc' = "done"
                   /\ exitc' = 1
                   /\ fs' = fs
       ELSE /\ pc' = "scan"
            /\ UNCHANGED <<fs, log, exitc>>
    /\ UNCHANGED <<genvars, zips, since, resume, role_count, prepFs>>
    /\ UNCHANGED <<scanvars, runs>>

\* Mutant: apply goes on to the next role without the prompt.
check_posting_pdf_no_prompt ==
    /\ mode = "apply" /\ pc = "scan"
    /\ log' = Append(log, Ev("scan", cur))
    /\ pc' = "next"
    /\ UNCHANGED <<genvars, fs, zips, exitc, since, resume, role_count, prepFs>>
    /\ UNCHANGED <<scanvars, runs>>

\* Role.prep, line 267: the keyword scan reads the posting PDF.
check_posting_pdf ==
    /\ mode = "apply" /\ pc = "scan"
    /\ log' = Append(log, Ev("scan", cur))
    /\ pc' = "wait"
    /\ UNCHANGED <<genvars, fs, zips, exitc, since, resume, role_count, prepFs>>
    /\ UNCHANGED <<scanvars, runs>>

\* input() returns: the operator pressed Enter.
Confirm ==
    /\ mode = "apply" /\ pc = "wait"
    /\ log' = Append(log, Ev("confirm", cur))
    /\ pc' = "next"
    /\ UNCHANGED <<genvars, fs, zips, exitc, since, resume, role_count, prepFs>>
    /\ UNCHANGED <<scanvars, runs>>

(* --------------------------------- zip --------------------------------- *)
\* _parse_date: "today" is datetime.today(), the time of day included; a
\* date string is that date at midnight.
_parse_date(x) ==
    CASE x.arg = "today" -> now
      [] x.arg = "date" -> TicksPerDay * x.day
      [] OTHER -> NaT

SinceArgs ==
    {[arg |-> "none", day |-> 0], [arg |-> "today", day |-> 0]}
    \cup {[arg |-> "date", day |-> d] : d \in 0 .. (MaxNow \div TicksPerDay)}

\* Mutant: zip without the exists() test; mode "w" truncates the file.
StartZip_overwrite ==
    /\ Idle
    /\ runs < MaxRuns
    /\ runs' = runs + 1
    /\ mode' = "zip"
    /\ \E x \in SinceArgs : since' = [arg |-> x.arg, date |-> _parse_date(x)]
    /\ filt' = TRUE
    /\ idx' = 1
    /\ counts' = <<>>
    /\ yielded' = <<>>
    /\ role_count' = 0
    /\ zips' = [d \in DOMAIN zips \cup {strftime(now)} |->
                  IF d = strftime(now) THEN {SpreadsheetEntry} ELSE zips[d]]
    /\ log' = <<<<"create", 0>>, <<"read", 0>>>>
    /\ pc' = "next"
    /\ exitc' = Running
    /\ df' = sheet
    /\ UNCHANGED <<sheet, now, seen, fs, resume, prepFs>>
    /\ UNCHANGED scanvars

\* EPOAApp.zip up to the first next() of role_gen(applied=True): exit 1 when
\* the zip file of today exists, otherwise create it and add the
\* spreadsheet.
StartZip ==
    /\ Idle
    /\ runs < MaxRuns
    /\ runs' = runs + 1
    /\ mode' = "zip"
    /\ \E x \in SinceArgs : since' = [arg |-> x.arg, date |-> _parse_date(x)]
    /\ filt' = TRUE
    /\ idx' = 1
    /\ counts' = <<>>
    /\ yielded' = <<>>
    /\ role_count' = 0
    /\ IF strftime(now) \in DOMAIN zips
       THEN /\ log' = <<<<"exists", 0>>>>
            /\ pc' = "done"
            /\ exitc' = 1
            /\ df' = <<>>
            /\ zips' = zips
       ELSE /\ zips' = ZipPut(zips, strftime(now), {SpreadsheetEntry})
            /\ log' = <<<<"create", 0>>, <<"read", 0>>>>
            /\ pc' = "next"
            /\ exitc' = Running
            /\ df' = sheet
    /\ UNCHANGED <<sheet, now, seen, fs, resume, prepFs>>
    /\ UNCHANGED scanvars

\* One iteration of zip's for loop, or its end.  A TypeError of print_info
\* leaves the with block, which closes the zip file.
ZipNext ==
    /\ mode = "zip" /\ pc = "next"
    /\ LET j == NextYield(df, filt, idx)
       IN IF j > Len(df)
          THEN /\ pc' = "done"
               /\ exitc' = 0
               /\ idx' = j
               /\ log' = Append(log, <<"saved", role_count>>)
               /\ UNCHANGED <<counts, yielded, role_count, zips>>
          ELSE \E fresh \in BOOLEAN :
                 /\ FreshOk(df[j], fresh)
                 /\ idx' = j + 1
                 /\ LET y == GenYield(counts, df[j], fresh)
                        r == y.item.r
                    IN /\ counts' = y.counts
                       /\ yielded' = Append(yielded, y.item)
                       /\ IF notna(since.date) /\ r.date_applied < since.date
                          THEN /\ log' = Append(log, Ev("skip", r))
                               /\ UNCHANGED <<role_count, zips, pc, exitc>>
                          ELSE /\ role_count' = role_count + 1
                               /\ IF Printable(r)
                                  THEN /\ zips' = ZipPut(zips, strftime(now),
                                                    FolderEntries(fs, r.path))
                                       /\ log' = Append(log, Ev("add", r))
                                       /\ UNCHANGED <<pc, exitc>>
                                  ELSE /\ pc' = "done"
                                       /\ exitc' = 1
                                       /\ UNCHANGED <<zips, log>>
    /\ UNCHANGED <<sheet, now, mode, filt, df, seen, fs, since, resume, prepFs>>
    /\ UNCHANGED <<scanvars, runs>>

\* The process ends (return of __call__, sys.exit or an uncaught
\* exception): nothing but the files survives.
Exit ==
    /\ pc = "done"
    /\ mode' = "idle"
    /\ pc' = "idle"
    /\ exitc' = Running
    /\ filt' = FALSE
    /\ df' = <<>>
    /\ idx' = 1
    /\ counts' = <<>>
    /\ yielded' = <<>>
    /\ since' = NoSince
    /\ resume' = 1
    /\ role_count' = 0
    /\ log' = <<>>
    /\ prepFs' = <<>>
    /\ UNCHANGED <<sheet, now, seen, fs, zips>>
    /\ UNCHANGED <<scanvars, runs>>

(* ----------------------------- keyword scan ---------------------------- *)
\* str.splitlines(): a final line break does not open another line.
RECURSIVE SplitLines(_, _, _)
SplitLines(s, line, acc) ==
    IF s = <<>> THEN (IF line = <<>> THEN acc ELSE Append(acc, line))
    ELSE IF Head(s) = "\n" THEN SplitLines(Tail(s), <<>>, Append(acc, line))
         ELSE SplitLines(Tail(s), Append(line, Head(s)), acc)

splitlines(text) == SplitLines(text, <<>>, <<>>)

IsPrefix(w, s) == Len(w) <= Len(s) /\ SubSeq(s, 1, Len(w)) = w

\* Python's `w in s` on strings.
RECURSIVE In(_, _)
In(w, s) ==
    IF IsPrefix(w, s) THEN TRUE
    ELSE IF s = <<>> THEN FALSE ELSE In(w, Tail(s))

\* Mutant: the match is case-sensitive.
RECURSIVE LineHits_case(_, _, _, _)
LineHits_case(page_num, word, lines, k) ==
    IF k > Len(lines) THEN <<>>
    ELSE (IF In(word, lines[k])
          THEN <<[page |-> page_num, word |-> word, line |-> k]>>
          ELSE <<>>)
         \o LineHits_case(page_num, word, lines, k + 1)

\* The inner loop of text_search: the lines of the text, for one word.
RECURSIVE LineHits(_, _, _, _)
LineHits(page_num, word, lines, k) ==
    IF k > Len(lines) THEN <<>>
    ELSE (IF In(Lower(word), Lower(lines[k]))
          THEN <<[page |-> page_num, word |-> word, line |-> k]>>
          ELSE <<>>)
         \o LineHits(page_num, word, lines, k + 1)

\* The outer loop of text_search: the configured words.
RECURSIVE WordHits(_, _, _)
WordHits(page_num, ws, text) ==
    IF ws = <<>> THEN <<>>
    ELSE LineHits(page_num, Head(ws), splitlines(text), 1)
         \o WordHits(page_num, Tail(ws), text)

text_search(page_num, text) == WordHits(page_num, words, text)

\* One iteration of check_posting_pdf's loop over reader.pages.
ReadPage ==
    /\ pidx <= Len(pages)
    /\ hits' = hits \o text_search(pidx, pages[pidx])
    /\ pidx' = pidx + 1
    /\ UNCHANGED <<genvars, appvars, pages, words, runs>>

TextChars == {"a", "B", "\n"}
Texts == UNION {[1 .. n -> TextChars] : n \in 0 .. MaxText}
Keywords == {<<"A">>, <<"a", "b">>}
WordLists ==
    {<<>>} \cup {<<w>> : w \in Keywords}
    \cup ({<<v, w>> : v, w \in Keywords} \ {<<w, w>> : w \in Keywords})

(* --------------------------- specifications ---------------------------- *)
\* Sheets of at most n rows over a set of rows, row ids 1, 2, ...
SheetsOver(rows, n) ==
    UNION {{[i \in 1 .. k |-> WithId(f[i], i)] : f \in [1 .. k -> rows]} :
             k \in 0 .. n}

InitRest ==
    /\ now = 0
    /\ mode = "idle"
    /\ filt = FALSE
    /\ df = <<>>
    /\ idx = 1
    /\ counts = <<>>
    /\ yielded = <<>>
    /\ seen = <<>>
    /\ fs = <<>>
    /\ zips = <<>>
    /\ pc = "idle"
    /\ exitc = Running
    /\ since = NoSince
    /\ resume = 1
    /\ role_count = 0
    /\ log = <<>>
    /\ prepFs = <<>>
    /\ runs = 0

NoSearch == pages = <<>> /\ words = <<>> /\ pidx = 1 /\ hits = <<>>

ScanInit == sheet \in SheetsOver(RowCells, MaxRows) /\ InitRest /\ NoSearch

ScanNext == GenStart \/ GenNext \/ Tick

\* One scan after another of a spreadsheet that does not change.
ScanSpec == ScanInit /\ [][ScanNext]_vars

RescanInit ==
    sheet \in SheetsOver(CompleteRows, MaxEditRows) /\ InitRest /\ NoSearch

RescanNext == GenStart \/ GenNext \/ Tick \/ AddRow \/ RemoveRow \/ FillDate

\* Scans of a spreadsheet the operator edits between the runs.
RescanSpec == RescanInit /\ [][RescanNext]_vars

\* The runs are checked on the rows of one company: without Date Applied,
\* applied on day 0, and one with an empty Company cell.
AppRows ==
    [company : {Ab}, title : {TitleE}, url : {UrlU}, date : {NaT, 0}]
    \cup [company : {NaN}, title : {TitleE}, url : {UrlU}, date : {NaT}]

Init == sheet \in SheetsOver(AppRows, MaxAppRows) /\ InitRest /\ NoSearch

ApplyStep ==
    ApplyNext \/ prep_mkdir \/ prep_copy \/ prep_fetch \/ check_posting_pdf
    \/ Confirm

Next ==
    StartApply \/ ApplyStep \/ StartZip \/ ZipNext \/ Exit \/ Tick \/ FillDate

\* Runs of the tool, apply or zip, one after another.
Spec == Init /\ [][Next]_vars

ApplyInit == sheet \in SheetsOver(AppRows, MaxLiveRows) /\ InitRest /\ NoSearch

ApplyRuns == StartApply \/ ApplyStep \/ Exit \/ Tick \/ FillDate

\* Apply runs only; the process keeps running and the operator answers
\* every prompt.  ApplyNext is enabled exactly at the head of the loop and
\* every ApplyNext step leaves it, so weak fairness of ApplyNext says that
\* the run is not at the head of the loop forever.
AtLoopHead == mode = "apply" /\ pc = "next"

FairApplySpec ==
    /\ ApplyInit /\ [][ApplyRuns]_vars
    /\ []<>(~AtLoopHead)
    /\ WF_vars(prep_mkdir) /\ WF_vars(prep_copy) /\ WF_vars(prep_fetch)
    /\ WF_vars(check_posting_pdf) /\ WF_vars(Confirm)

SearchInit ==
    /\ sheet = <<>>
    /\ InitRest
    /\ pages \in UNION {[1 .. n -> Texts] : n \in 0 .. MaxPages}
    /\ words \in WordLists
    /\ pidx = 1
    /\ hits = <<>>

\* The keyword scan of one posting PDF.
SearchSpec == SearchInit /\ [][ReadPage]_vars

(* ------------------------------ claims --------------------------------- *)
Roles == {yielded[i].r : i \in 1 .. Len(yielded)}

C4_KthCallReturnsK ==
    \A i \in 1 .. Len(yielded) :
        IsStr(yielded[i].r.company)
        => yielded[i].r.role_num =
             Cardinality({j \in 1 .. i :
                            /\ yielded[j].cdate = yielded[i].cdate
                            /\ yielded[j].r.company = yielded[i].r.company})

\* C4 witness: two rows of one company without applied date got 1 and 2 in
\* one scan, and a row of another company on the same date in between got 1.
C4_Witness ==
    /\ Len(yielded) = 3
    /\ \A i \in 1 .. 3 : ~notna(yielded[i].r.date_applied)
                         /\ yielded[i].cdate = yielded[1].cdate
    /\ yielded[1].r.company = yielded[3].r.company
    /\ yielded[2].r.company # yielded[1].r.company
    /\ <<yielded[1].r.role_num, yielded[2].r.role_num, yielded[3].r.role_num>>
         = <<1, 1, 2>>

Present(c) == IsStr(c) /\ c.s # <<>>

\* C5 (as claimed): a row is yielded only if its Company, Role Posting URL
\* and Role Title cells are all present; a row with one of them missing is
\* skipped and consumes no sequence number.
C5_YieldedRowsComplete ==
    \A r \in Roles : Present(r.company) /\ Present(r.url) /\ Present(r.title)

\* C10 (as claimed): within one scan two distinct yielded records have
\* distinct folderPaths.
C10_DistinctPaths ==
    \A i, j \in 1 .. Len(yielded) :
        (i # j /\ yielded[i].r.path # NoPath /\ yielded[j].r.path # NoPath)
        => yielded[i].r.path # yielded[j].r.path

Kinds(l) == {l[i][1] : i \in 1 .. Len(l)}
Events(l) == {l[i] : i \in 1 .. Len(l)}
Last(l) == l[Len(l)]

\* C2: when the zip file of today exists at the start of zip, the run ends
\* at once with exit status 1, and neither the zip files nor the evidence
\* folders change, and the spreadsheet is not read.
C2_ExistingZipUntouched ==
    [][(Idle /\ mode' = "zip" /\ strftime(now) \in DOMAIN zips)
       => /\ pc' = "done"
          /\ exitc' = 1
          /\ zips' = zips
          /\ fs' = fs
          /\ df' = <<>>
          /\ Kinds(log') \cap {"read", "create", "add"} = {}]_vars

\* C2 witness: a zip run ended with status 1 in front of the archive that
\* an earlier run of the same day had written, with applied rows in the
\* spreadsheet.
C2_Witness ==
    /\ mode = "zip" /\ pc = "done" /\ exitc = 1
    /\ log = <<<<"exists", 0>>>>
    /\ strftime(now) \in DOMAIN zips
    /\ SpreadsheetEntry \in zips[strftime(now)]
    /\ \E p \in 1 .. Len(sheet) : notna(sheet[p].date)

\* C3 (as claimed): a zip run that ends normally has archived, and counted,
\* exactly the valid rows with a Date Applied that, when --since-date is
\* given, is on or after the threshold date.
C3_ArchivedSet ==
    (mode = "zip" /\ pc = "done" /\ exitc = 0)
    => LET expected ==
             {i \in 1 .. Len(df) :
                /\ Present(df[i].company) /\ Present(df[i].url)
                /\ Present(df[i].title)
                /\ notna(df[i].date)
                /\ notna(since.date)
                   => strftime(df[i].date) >= strftime(since.date)}
       IN /\ {e[2] : e \in {x \in Events(log) : x[1] = "add"}}
               = {df[i].id : i \in expected}
          /\ role_count = Cardinality(expected)

HadResume == cur.path \in DOMAIN prepFs /\ prepFs[cur.path].resume # NoFile
HadPdf == cur.path \in DOMAIN prepFs /\ prepFs[cur.path].pdf # NoFile

\* C6: prep copies the resume exactly when the folder had no resume, and
\* invokes the fetch exactly when the folder had no posting PDF; when the
\* folder had both, prep changes no file at all.
C6_PrepIdempotent ==
    (mode = "apply" /\ pc \in {"fetch", "scan", "wait"})
    => /\ Ev("copy", cur) \in Events(log) <=> ~HadResume
       /\ HadResume => fs[cur.path].resume = prepFs[cur.path].resume
       /\ pc \in {"scan", "wait"}
          => /\ Ev("fetch", cur) \in Events(log) <=> ~HadPdf
             /\ HadPdf => fs[cur.path].pdf = prepFs[cur.path].pdf
       /\ (HadResume /\ HadPdf) => fs = prepFs

\* C6 witness: a second prep of a record, with a resume file that changed
\* in between, reached the prompt without copying or fetching.
C6_Witness ==
    /\ mode = "apply" /\ pc = "wait"
    /\ HadResume /\ HadPdf
    /\ prepFs[cur.path].resume # resume

\* C7: after a failed fetch the run is over with a non-zero exit; the
\* failure is the last step, the record was not scanned or confirmed, and
\* the folder, the resume copy and all earlier files are still there.
C7_FetchFailureAborts ==
    (mode = "apply" /\ "fetchfail" \in Kinds(log))
    => /\ pc = "done" /\ exitc # 0 /\ exitc # Running
       /\ Last(log) = Ev("fetchfail", cur)
       /\ Cardinality({i \in 1 .. Len(log) : log[i][1] = "fetchfail"}) = 1
       /\ Events(log) \cap {Ev("fetch", cur), Ev("scan", cur),
                            Ev("confirm", cur)} = {}
       /\ cur.path \in DOMAIN fs /\ fs[cur.path].resume # NoFile
       /\ \A p \in DOMAIN prepFs : p \in DOMAIN fs /\
             (prepFs[p].resume # NoFile => fs[p].resume = prepFs[p].resume)

\* C7 witness: the fetch of the first record failed and a later record was
\* left unprocessed.
C7_Witness ==
    /\ mode = "apply" /\ pc = "done" /\ exitc = 1
    /\ "fetchfail" \in Kinds(log)
    /\ Len(yielded) = 1
    /\ NextYield(df, filt, idx) <= Len(df)

Rank(k) ==
    CASE k = "read" -> 0
      [] k = "mkdir" -> 1
      [] k = "copy" -> 2
      [] k \in {"fetch", "fetchfail"} -> 3
      [] k = "scan" -> 4
      [] OTHER -> 5

\* e2 may directly follow e1 in an apply run.
Follows(e1, e2) ==
    IF e1[1] = "read" THEN e2[1] = "mkdir"
    ELSE IF e1[2] = e2[2]
         THEN /\ Rank(e2[1]) > Rank(e1[1])
              /\ e1[1] # "fetchfail"
              /\ (e2[1] = "confirm") = (e1[1] = "scan")
         ELSE e1[1] = "confirm" /\ e2[1] = "mkdir" /\ e2[2] > e1[2]

C8_Order ==
    mode = "apply"
    => /\ \A r \in Roles : ~notna(r.date_applied)
       /\ log[1] = <<"read", 0>>
       /\ \A i \in 1 .. Len(log) - 1 : Follows(log[i], log[i + 1])
       /\ \A i \in 2 .. Len(log) :
            \E j \in 1 .. Len(yielded) : yielded[j].r.id = log[i][2]
       /\ (pc = "done" /\ exitc = 0)
          => /\ {r.id : r \in Roles}
                  = {df[i].id : i \in {k \in 1 .. Len(df) : RowYields(FALSE, df[k])}}
             /\ \A r \in Roles :
                  Cardinality({i \in 1 .. Len(log) : log[i] = Ev("confirm", r)}) = 1
             /\ Cardinality({i \in 1 .. Len(log) : log[i][1] = "confirm"})
                  = Len(yielded)

\* C8: apply takes the unapplied records in spreadsheet order, runs mkdir,
\* copy, fetch, scan and the prompt in that order for each, starts no step
\* of the next record before the confirmation, and, the prompts being
\* answered, ends; a run without failure has one confirmation per record.
C8_ApplySequence ==
    /\ []C8_Order
    /\ (mode = "apply") ~> (pc = "done")

\* C8 witness: a run over two records ended normally after two
\* confirmations.
C8_Witness ==
    /\ mode = "apply" /\ pc = "done" /\ exitc = 0
    /\ Len(yielded) = 2
    /\ Cardinality({i \in 1 .. Len(log) : log[i][1] = "confirm"}) = 2

\* C9: the scan of a page reports one hit for every pair of a configured
\* keyword and a line of the page whose lower-cased text contains the
\* lower-cased keyword, and nothing else; every hit carries the 1-based
\* number of its page.
Contains(line, w) ==
    \E i \in 1 .. Len(line) + 1 :
        /\ i + Len(w) - 1 <= Len(line)
        /\ \A j \in 1 .. Len(w) : ToLower(line[i + j - 1]) = ToLower(w[j])

C9_OneHitPerPair ==
    /\ \A i \in 1 .. Len(hits) : hits[i].page \in 1 .. (pidx - 1)
    /\ \A p \in 1 .. (pidx - 1) :
        \A wi \in 1 .. Len(words) :
          \A k \in 1 .. Len(splitlines(pages[p])) :
            Cardinality({i \in 1 .. Len(hits) :
                           hits[i] = [page |-> p, word |-> words[wi], line |-> k]})
              = IF Contains(splitlines(pages[p])[k], words[wi]) THEN 1 ELSE 0
    /\ \A i \in 1 .. Len(hits) :
         /\ hits[i].line \in 1 .. Len(splitlines(pages[hits[i].page]))
         /\ \E wi \in 1 .. Len(words) : words[wi] = hits[i].word

\* C9 witness: the second page has a line that matches both keywords and was
\* reported twice, and the first page was scanned without a hit.
C9_Witness ==
    /\ Len(pages) = 2 /\ pidx = 3 /\ Len(words) = 2
    /\ \A i \in 1 .. Len(hits) : hits[i].page = 2
    /\ \E k \in 1 .. Len(splitlines(pages[2])) :
         \A wi \in 1 .. 2 :
            [page |-> 2, word |-> words[wi], line |-> k]
               \in {hits[i] : i \in 1 .. Len(hits)}
    /\ pages[1] # <<>>

====
